---- MODULE Spec2Model ----
(***************************************************************************)
(* Rule engine of rustling: RuleSet::apply_all / apply_once (core/lib.rs), *)
(* the rule combinators Rule1..Rule5 (core/rule.rs) and the boundary       *)
(* validator valid_boundaries (core/lib.rs).                               *)
(*                                                                         *)
(* Sentences are sequences of one-byte characters, so a byte offset is a   *)
(* character offset.  Range(b, e) is the pair <<b, e>>, 0-based and        *)
(* end-exclusive as in the source.                                         *)
(***************************************************************************)
EXTENDS Integers, Sequences, FiniteSets, Bags, TLC

VARIABLES sentence, rules, stash, produced_nodes, rule_ix, iteration,
          previous_stash_size, pc, result, range, accepted, calls,
          classifier, bag_of_features, model, input, target, output

\* the variables of the classifier bank
ml_vars == <<classifier, bag_of_features, model, input, target, output>>

\* the variables of the rule engine
engine_vars == <<sentence, rules, stash, produced_nodes, rule_ix, iteration,
                 previous_stash_size, result, range, accepted, calls>>

vars == <<sentence, rules, stash, produced_nodes, rule_ix, iteration,
          previous_stash_size, pc, result, range, accepted, calls,
          classifier, bag_of_features, model, input, target, output>>

\* no call of the classifier bank is made
ml_idle ==
    /\ classifier = <<>>
    /\ bag_of_features = <<>>
    /\ model = <<>>
    /\ input = <<>>
    /\ target = ""
    /\ output = <<>>

(* ------------------------------ bounds --------------------------------- *)

\* longest sentence given to apply_all
MaxLen == 5
\* largest number of rules registered in a RuleSet
MaxRules == 2
\* the model stops following a call whose stash would grow beyond this
MaxStash == 12
\* longest sentence given to valid_boundaries when it is called on its own
MaxVBLen == 4
\* longest sentence with '-' given to apply_all
MaxMixedLen == 3
\* longest sentence given to one of two calls of apply_all that run at once
MaxParLen == 2
\* largest number of classes of a classifier
MaxClasses == 2
\* longest sentence given to apply_all where whole behaviours are compared
MaxShortLen == 3
\* longest sentence of the calls of adjacent on its own
MaxAdjLen == 3
\* the model stops following a call with rules of any kind whose stash would
\* grow beyond this
MaxLoopStash == 602
\* largest number of examples given to Classifier::train
MaxExamples == 2
\* largest count of a feature in a bag of features
MaxCount == 80
\* largest number of nodes of the input of Model::classify
MaxNodes == 3

(* ------------------------- program constants --------------------------- *)

iterations_max == 10
max_stash_size == 600

(* ------------------------------ characters ----------------------------- *)

Alphabet == {"a", "1", " ", "-", "."}

\* the characters of the sentences handed to apply_all
EngineAlphabet == {"a", " "}

is_alphanumeric(c) == c \in {"a", "1"}

is_whitespace(c) == c = " "

alphanumeric_class[c \in Alphabet] == IF is_alphanumeric(c) THEN "A" ELSE c

\* Option<char>
None == [some |-> FALSE, c |-> ""]
Some(c) == [some |-> TRUE, c |-> c]

\* sentence[b..e]
Slice(s, b, e) == SubSeq(s, b + 1, e)

\* .chars().next()
chars_next(s) == IF s = <<>> THEN None ELSE Some(s[1])

\* .chars().next_back()
chars_next_back(s) == IF s = <<>> THEN None ELSE Some(s[Len(s)])

\* Option::map(char_class)
option_map(o, char_class) == IF o.some THEN Some(char_class[o.c]) ELSE None

\* mutant of valid_boundaries: the two tests joined by || instead of &&
valid_boundaries_EitherEnd(s, r, char_class) ==
    LET first_mine  == option_map(chars_next(Slice(s, r[1], r[2])), char_class)
        last_mine   == option_map(chars_next_back(Slice(s, r[1], r[2])), char_class)
        last_before == option_map(chars_next_back(Slice(s, 0, r[1])), char_class)
        first_after == option_map(chars_next(Slice(s, r[2], Len(s))), char_class)
    IN  first_mine # last_before \/ last_mine # first_after

valid_boundaries(s, r, char_class) ==
    LET first_mine  == option_map(chars_next(Slice(s, r[1], r[2])), char_class)
        last_mine   == option_map(chars_next_back(Slice(s, r[1], r[2])), char_class)
        last_before == option_map(chars_next_back(Slice(s, 0, r[1])), char_class)
        first_after == option_map(chars_next(Slice(s, r[2], Len(s))), char_class)
    IN  first_mine # last_before /\ last_mine # first_after

(* --------------------------- nodes and matches ------------------------- *)

Node(sym, r, children) == [rule_sym |-> sym, range |-> r, children |-> children]

ParsedNode(sym, v, r, children) == [root_node |-> Node(sym, r, children), value |-> v]

\* a text match: its groups, its outer range and the symbol of its pattern
Text(groups, r, sym) == [groups |-> groups, range |-> r, pattern_sym |-> sym]

IsText(m) == "groups" \in DOMAIN m

\* Match::range
match_range(m) == IF IsText(m) THEN m.range ELSE m.root_node.range

\* Match::to_node
to_node(m) == IF IsText(m) THEN Node(m.pattern_sym, m.range, <<>>) ELSE m.root_node

(* -------------------------------- helpers ------------------------------ *)

RECURSIVE ConcatAll(_)
\* the concatenation of a sequence of sequences, in order
ConcatAll(ss) == IF ss = <<>> THEN <<>> ELSE Head(ss) \o ConcatAll(Tail(ss))

RECURSIVE SortedSeq(_)
\* the elements of a finite set of integers in increasing order
SortedSeq(S) ==
    IF S = {} THEN <<>>
    ELSE LET m == CHOOSE x \in S : \A y \in S : x <= y
         IN  <<m>> \o SortedSeq(S \ {m})

(* -------------------------------- patterns ----------------------------- *)

\* the spans a regex finds in the sentence, leftmost first and not overlapping:
\* the regex "c" finds every occurrence of c, the regex "c+" every maximal run
find_iter(re, s) ==
    LET hit(i) == s[i] = re.ch
        starts == IF re.plus
                  THEN {i \in 1..Len(s) : hit(i) /\ (i = 1 \/ ~hit(i - 1))}
                  ELSE {i \in 1..Len(s) : hit(i)}
        stop(i) == IF re.plus
                   THEN CHOOSE j \in i..Len(s) :
                          /\ \A k \in i..j : hit(k)
                          /\ (j = Len(s) \/ ~hit(j + 1))
                   ELSE i
        ordered == SortedSeq(starts)
    IN  [n \in 1..Len(ordered) |-> <<ordered[n] - 1, stop(ordered[n])>>]

TextPattern(re, sym) == [kind |-> "Text", re |-> re, sym |-> sym, v |-> 0]

AnyNodePattern == [kind |-> "AnyNode", re |-> [ch |-> "", plus |-> FALSE], sym |-> 0, v |-> 0]

FilterNodePattern(v) == [kind |-> "FilterNode", re |-> [ch |-> "", plus |-> FALSE], sym |-> 0, v |-> v]

\* Pattern::predicate
predicate(p, st, s) ==
    CASE p.kind = "Text" ->
           LET found == find_iter(p.re, s)
           IN  [n \in 1..Len(found) |-> Text(<<found[n]>>, found[n], p.sym)]
      [] p.kind = "AnyNode" -> st
      [] p.kind = "FilterNode" -> SelectSeq(st, LAMBDA pn : pn.value = p.v)

(* ------------------------------ productions ---------------------------- *)

\* RuleResult<V>
Ok(v) == [ok |-> TRUE, v |-> v, e |-> ""]
Err(e) == [ok |-> FALSE, v |-> 0, e |-> e]

\* RuleProductionArg<Text>::group
group(m, ix, s) == Slice(s, m.groups[ix + 1][1], m.groups[ix + 1][2])

\* RuleProductionArg<ParsedNode>::value
value(m) == m.value

\* what a production closure reads of an argument: the length of the
\* matched text, or the value of the matched node
arg_key(m, s) == IF IsText(m) THEN Len(group(m, 0, s)) ELSE value(m)

RECURSIVE sum_of_keys(_, _)
\* a.value() + b.value() + ..: the sum of what the closure reads of its
\* arguments
sum_of_keys(sub, s) ==
    IF sub = <<>> THEN 0 ELSE arg_key(Head(sub), s) + sum_of_keys(Tail(sub), s)

\* mutant of production: a closure that is not deterministic, it rejects
\* every tuple of more than one argument during the second turn of apply_all
production_VariesByTurn(prod, sub, s) ==
    IF Len(sub) > 1 /\ iteration = 1
    THEN Err("Invalid")
    ELSE IF arg_key(sub[1], s) \in prod.bad
         THEN Err(prod.err)
         ELSE Ok(IF prod.sum THEN sum_of_keys(sub, s) ELSE prod.val)

\* A production closure is given by prod = [bad, err, sum, val]: it returns
\* Err(err) on the tuples whose first argument it rejects (its key is in
\* bad); on the others it returns Ok of the sum of its arguments (sum) or of
\* the fixed value val.
production(prod, sub, s) ==
    IF arg_key(sub[1], s) \in prod.bad
    THEN Err(prod.err)
    ELSE Ok(IF prod.sum THEN sum_of_keys(sub, s) ELSE prod.val)

\* format!("{:?}", s) of a RuleError
format_debug(e) == <<"Error", e>>

NoError == [kind |-> "", t |-> <<>>]

make_production_error(e) == [kind |-> "ProductionRuleError", t |-> format_debug(e)]

\* CoreResult<ParsedNodes>
OkNodes(nodes) == [ok |-> TRUE, nodes |-> nodes, err |-> NoError]
ErrCore(e) == [ok |-> FALSE, nodes |-> <<>>, err |-> e]

\* an item kept by filter_map: Some(Ok(node)) or Some(Err(error))
SomeOk(pn) == <<[ok |-> TRUE, node |-> pn, err |-> NoError]>>
SomeErr(e) == <<[ok |-> FALSE, node |-> <<>>, err |-> e]>>

\* .filter_map(..).collect() into a CoreResult: the first Err ends the
\* collection and is the result, otherwise the nodes in order
collect(items) ==
    LET kept == ConcatAll(items)
        bad  == {i \in 1..Len(kept) : ~kept[i].ok}
    IN  IF bad = {}
        THEN OkNodes([i \in 1..Len(kept) |-> kept[i].node])
        ELSE ErrCore(kept[CHOOSE i \in bad : \A j \in bad : i <= j].err)

\* mutant of not_in_stash: the test is left out, every match is new
not_in_stash_Disabled(st, sym, nodes) == TRUE

\* the test every apply makes before it calls the production: no entry of
\* the stash has these children and this rule symbol
not_in_stash(st, sym, nodes) ==
    \A i \in 1..Len(st) :
        st[i].root_node.children # nodes \/ st[i].root_node.rule_sym # sym

\* sentence[b..e] panics when b > e or e is beyond the end of the sentence
slice_panics(s, b, e) == b > e \/ e > Len(s)

\* mutant of adjacent_eval: the gap is sliced whatever the order of the matches
adjacent_eval_NoOrderTest(a, b, s) ==
    IF slice_panics(s, match_range(a)[2], match_range(b)[1]) THEN "panic"
    ELSE LET gap == Slice(s, match_range(a)[2], match_range(b)[1])
         IN  IF \A i \in 1..Len(gap) : is_whitespace(gap[i]) \/ gap[i] = "-"
             THEN "true" ELSE "false"

\* the evaluation of the body of adjacent: && evaluates its right operand,
\* the slice, only when the left one holds
adjacent_eval(a, b, s) ==
    IF ~(match_range(a)[2] <= match_range(b)[1]) THEN "false"
    ELSE IF slice_panics(s, match_range(a)[2], match_range(b)[1]) THEN "panic"
    ELSE LET gap == Slice(s, match_range(a)[2], match_range(b)[1])
         IN  IF \A i \in 1..Len(gap) : is_whitespace(gap[i]) \/ gap[i] = "-"
             THEN "true" ELSE "false"

adjacent(a, b, s) == adjacent_eval(a, b, s) = "true"

(* --------------------------------- Rule1 ------------------------------- *)

Rule1_matches(rule, st, s) == predicate(rule.pattern[1], st, s)

\* mutant of Rule1_apply: Err(Invalid) drops the match, as in Rule2
Rule1_apply_DropsInvalid(rule, st, s) ==
    LET matches == Rule1_matches(rule, st, s)
        item(sub) ==
            LET nodes == <<to_node(sub)>>
            IN  IF not_in_stash(st, rule.sym, nodes)
                THEN LET r == production(rule.production, <<sub>>, s)
                     IN  IF r.ok
                         THEN SomeOk(ParsedNode(rule.sym, r.v, match_range(sub), nodes))
                         ELSE IF r.e = "Invalid"
                              THEN <<>>
                              ELSE SomeErr(make_production_error(r.e))
                ELSE <<>>
    IN  collect([i \in 1..Len(matches) |-> item(matches[i])])

Rule1_apply(rule, st, s) ==
    LET matches == Rule1_matches(rule, st, s)
        item(sub) ==
            LET nodes == <<to_node(sub)>>
            IN  IF not_in_stash(st, rule.sym, nodes)
                THEN LET r == production(rule.production, <<sub>>, s)
                     IN  IF r.ok
                         THEN SomeOk(ParsedNode(rule.sym, r.v, match_range(sub), nodes))
                         ELSE SomeErr(make_production_error(r.e))
                ELSE <<>>
    IN  collect([i \in 1..Len(matches) |-> item(matches[i])])

(* --------------------------------- Rule2 ------------------------------- *)

\* mutant of Rule2_matches: the two loops in the other order
Rule2_matches_Swapped(rule, st, s) ==
    LET matches_0 == predicate(rule.pattern[1], st, s)
        matches_1 == predicate(rule.pattern[2], st, s)
    IN  IF matches_0 = <<>> THEN <<>>
        ELSE ConcatAll([i1 \in 1..Len(matches_1) |->
             ConcatAll([i0 \in 1..Len(matches_0) |->
                IF adjacent(matches_0[i0], matches_1[i1], s)
                THEN << <<matches_0[i0], matches_1[i1]>> >>
                ELSE <<>>])])

Rule2_matches(rule, st, s) ==
    LET matches_0 == predicate(rule.pattern[1], st, s)
        matches_1 == predicate(rule.pattern[2], st, s)
    IN  IF matches_0 = <<>> THEN <<>>
        ELSE ConcatAll([i0 \in 1..Len(matches_0) |->
             ConcatAll([i1 \in 1..Len(matches_1) |->
                IF adjacent(matches_0[i0], matches_1[i1], s)
                THEN << <<matches_0[i0], matches_1[i1]>> >>
                ELSE <<>>])])

\* mutant of Rule2_apply: the matches of a node whose span fails
\* valid_boundaries are left out
Rule2_apply_SkipsInvalidSpans(rule, st, s) ==
    LET matches == SelectSeq(Rule2_matches(rule, st, s),
                             LAMBDA sub : \A k \in 1..2 :
                                IsText(sub[k])
                                \/ valid_boundaries(s, match_range(sub[k]),
                                                    alphanumeric_class))
        item(sub) ==
            LET nodes == <<to_node(sub[1]), to_node(sub[2])>>
            IN  IF not_in_stash(st, rule.sym, nodes)
                THEN LET r  == <<match_range(sub[1])[1], match_range(sub[2])[2]>>
                         pr == production(rule.production, sub, s)
                     IN  IF pr.ok
                         THEN SomeOk(ParsedNode(rule.sym, pr.v, r, nodes))
                         ELSE IF pr.e = "Invalid"
                              THEN <<>>
                              ELSE SomeErr(make_production_error(pr.e))
                ELSE <<>>
    IN  collect([i \in 1..Len(matches) |-> item(matches[i])])

Rule2_apply(rule, st, s) ==
    LET matches == Rule2_matches(rule, st, s)
        item(sub) ==
            LET nodes == <<to_node(sub[1]), to_node(sub[2])>>
            IN  IF not_in_stash(st, rule.sym, nodes)
                THEN LET r  == <<match_range(sub[1])[1], match_range(sub[2])[2]>>
                         pr == production(rule.production, sub, s)
                     IN  IF pr.ok
                         THEN SomeOk(ParsedNode(rule.sym, pr.v, r, nodes))
                         ELSE IF pr.e = "Invalid"
                              THEN <<>>
                              ELSE SomeErr(make_production_error(pr.e))
                ELSE <<>>
    IN  collect([i \in 1..Len(matches) |-> item(matches[i])])

(* --------------------------------- Rule3 ------------------------------- *)

\* mutant of Rule3_matches: the third match is tested against the first
Rule3_matches_WrongPair(rule, st, s) ==
    LET matches_0 == predicate(rule.pattern[1], st, s)
        matches_1 == predicate(rule.pattern[2], st, s)
        matches_2 == predicate(rule.pattern[3], st, s)
    IN  IF matches_0 = <<>> \/ matches_1 = <<>> \/ matches_2 = <<>> THEN <<>>
        ELSE ConcatAll([i0 \in 1..Len(matches_0) |->
             ConcatAll([i1 \in 1..Len(matches_1) |->
                IF adjacent(matches_0[i0], matches_1[i1], s)
                THEN ConcatAll([i2 \in 1..Len(matches_2) |->
                        IF adjacent(matches_0[i0], matches_2[i2], s)
                        THEN << <<matches_0[i0], matches_1[i1], matches_2[i2]>> >>
                        ELSE <<>>])
                ELSE <<>>])])

Rule3_matches(rule, st, s) ==
    LET matches_0 == predicate(rule.pattern[1], st, s)
        matches_1 == predicate(rule.pattern[2], st, s)
        matches_2 == predicate(rule.pattern[3], st, s)
    IN  IF matches_0 = <<>> \/ matches_1 = <<>> \/ matches_2 = <<>> THEN <<>>
        ELSE ConcatAll([i0 \in 1..Len(matches_0) |->
             ConcatAll([i1 \in 1..Len(matches_1) |->
                IF adjacent(matches_0[i0], matches_1[i1], s)
                THEN ConcatAll([i2 \in 1..Len(matches_2) |->
                        IF adjacent(matches_1[i1], matches_2[i2], s)
                        THEN << <<matches_0[i0], matches_1[i1], matches_2[i2]>> >>
                        ELSE <<>>])
                ELSE <<>>])])

Rule3_apply(rule, st, s) ==
    LET matches == Rule3_matches(rule, st, s)
        item(sub) ==
            LET nodes == <<to_node(sub[1]), to_node(sub[2]), to_node(sub[3])>>
            IN  IF not_in_stash(st, rule.sym, nodes)
                THEN LET r  == <<match_range(sub[1])[1], match_range(sub[3])[2]>>
                         pr == production(rule.production, sub, s)
                     IN  IF pr.ok
                         THEN SomeOk(ParsedNode(rule.sym, pr.v, r, nodes))
                         ELSE SomeErr(make_production_error(pr.e))
                ELSE <<>>
    IN  collect([i \in 1..Len(matches) |-> item(matches[i])])

(* --------------------------------- Rule4 ------------------------------- *)

Rule4_matches(rule, st, s) ==
    LET matches_0 == predicate(rule.pattern[1], st, s)
        matches_1 == predicate(rule.pattern[2], st, s)
        matches_2 == predicate(rule.pattern[3], st, s)
        matches_3 == predicate(rule.pattern[4], st, s)
    IN  IF \/ matches_0 = <<>> \/ matches_1 = <<>>
           \/ matches_2 = <<>> \/ matches_3 = <<>> THEN <<>>
        ELSE ConcatAll([i0 \in 1..Len(matches_0) |->
             ConcatAll([i1 \in 1..Len(matches_1) |->
                IF adjacent(matches_0[i0], matches_1[i1], s)
                THEN ConcatAll([i2 \in 1..Len(matches_2) |->
                        IF adjacent(matches_1[i1], matches_2[i2], s)
                        THEN ConcatAll([i3 \in 1..Len(matches_3) |->
                                IF adjacent(matches_2[i2], matches_3[i3], s)
                                THEN << <<matches_0[i0], matches_1[i1],
                                          matches_2[i2], matches_3[i3]>> >>
                                ELSE <<>>])
                        ELSE <<>>])
                ELSE <<>>])])

\* mutant of Rule4_apply: every production error drops the tuple
Rule4_apply_SwallowsErrors(rule, st, s) ==
    LET matches == Rule4_matches(rule, st, s)
        item(sub) ==
            LET nodes == <<to_node(sub[1]), to_node(sub[2]),
                           to_node(sub[3]), to_node(sub[4])>>
            IN  IF not_in_stash(st, rule.sym, nodes)
                THEN LET r  == <<match_range(sub[1])[1], match_range(sub[4])[2]>>
                         pr == production(rule.production, sub, s)
                     IN  IF pr.ok
                         THEN SomeOk(ParsedNode(rule.sym, pr.v, r, nodes))
                         ELSE <<>>
                ELSE <<>>
    IN  collect([i \in 1..Len(matches) |-> item(matches[i])])

Rule4_apply(rule, st, s) ==
    LET matches == Rule4_matches(rule, st, s)
        item(sub) ==
            LET nodes == <<to_node(sub[1]), to_node(sub[2]),
                           to_node(sub[3]), to_node(sub[4])>>
            IN  IF not_in_stash(st, rule.sym, nodes)
                THEN LET r  == <<match_range(sub[1])[1], match_range(sub[4])[2]>>
                         pr == production(rule.production, sub, s)
                     IN  IF pr.ok
                         THEN SomeOk(ParsedNode(rule.sym, pr.v, r, nodes))
                         ELSE SomeErr(make_production_error(pr.e))
                ELSE <<>>
    IN  collect([i \in 1..Len(matches) |-> item(matches[i])])

(* --------------------------------- Rule5 ------------------------------- *)

Rule5_matches(rule, st, s) ==
    LET matches_0 == predicate(rule.pattern[1], st, s)
        matches_1 == predicate(rule.pattern[2], st, s)
        matches_2 == predicate(rule.pattern[3], st, s)
        matches_3 == predicate(rule.pattern[4], st, s)
        matches_4 == predicate(rule.pattern[5], st, s)
    IN  IF \/ matches_0 = <<>> \/ matches_1 = <<>> \/ matches_2 = <<>>
           \/ matches_3 = <<>> \/ matches_4 = <<>> THEN <<>>
        ELSE ConcatAll([i0 \in 1..Len(matches_0) |->
             ConcatAll([i1 \in 1..Len(matches_1) |->
                IF adjacent(matches_0[i0], matches_1[i1], s)
                THEN ConcatAll([i2 \in 1..Len(matches_2) |->
                        IF adjacent(matches_1[i1], matches_2[i2], s)
                        THEN ConcatAll([i3 \in 1..Len(matches_3) |->
                                IF adjacent(matches_2[i2], matches_3[i3], s)
                                THEN ConcatAll([i4 \in 1..Len(matches_4) |->
                                        IF adjacent(matches_3[i3], matches_4[i4], s)
                                        THEN << <<matches_0[i0], matches_1[i1],
                                                  matches_2[i2], matches_3[i3],
                                                  matches_4[i4]>> >>
                                        ELSE <<>>])
                                ELSE <<>>])
                        ELSE <<>>])
                ELSE <<>>])])

Rule5_apply(rule, st, s) ==
    LET matches == Rule5_matches(rule, st, s)
        item(sub) ==
            LET nodes == <<to_node(sub[1]), to_node(sub[2]), to_node(sub[3]),
                           to_node(sub[4]), to_node(sub[5])>>
            IN  IF not_in_stash(st, rule.sym, nodes)
                THEN LET r  == <<match_range(sub[1])[1], match_range(sub[5])[2]>>
                         pr == production(rule.production, sub, s)
                     IN  IF pr.ok
                         THEN SomeOk(ParsedNode(rule.sym, pr.v, r, nodes))
                         ELSE SomeErr(make_production_error(pr.e))
                ELSE <<>>
    IN  collect([i \in 1..Len(matches) |-> item(matches[i])])

(* ------------------------------- rule sets ----------------------------- *)

\* RuleN::new, N the number of patterns
Rule(sym, pattern, prod) == [sym |-> sym, pattern |-> pattern, production |-> prod]

\* Rule::apply of the boxed rule: the implementation of its arity
apply(rule, st, s) ==
    CASE Len(rule.pattern) = 1 -> Rule1_apply(rule, st, s)
      [] Len(rule.pattern) = 2 -> Rule2_apply(rule, st, s)
      [] Len(rule.pattern) = 3 -> Rule3_apply(rule, st, s)
      [] Len(rule.pattern) = 4 -> Rule4_apply(rule, st, s)
      [] Len(rule.pattern) = 5 -> Rule5_apply(rule, st, s)

\* the sequences over S of length at most n
SeqsUpTo(S, n) == UNION {[1..k -> S] : k \in 0..n}

\* the regex "a", interned as symbol 1
TextA == TextPattern([ch |-> "a", plus |-> FALSE], 1)

\* the regex "a+", interned as symbol 2
TextRunA == TextPattern([ch |-> "a", plus |-> TRUE], 2)

Always(val) == [bad |-> {}, err |-> "", sum |-> FALSE, val |-> val]
Fails(bad, err, val) == [bad |-> bad, err |-> err, sum |-> FALSE, val |-> val]
SumUnless(bad, err) == [bad |-> bad, err |-> err, sum |-> TRUE, val |-> 0]

\* the rules a RuleSet is built from
RulePool ==
    { Rule(1, <<TextA>>, Always(1)),
      Rule(1, <<TextA>>, Always(2)),
      Rule(3, <<AnyNodePattern>>, Fails({1}, "Invalid", 2)),
      Rule(4, <<AnyNodePattern, AnyNodePattern>>, SumUnless({3}, "Invalid")),
      Rule(5, <<AnyNodePattern, TextRunA, FilterNodePattern(1)>>, Fails({2}, "Invalid", 2)),
      Rule(6, <<AnyNodePattern, TextA, TextA, TextA>>, Fails({2}, "NumParseInt", 2)),
      Rule(7, <<AnyNodePattern, TextA, TextA, TextA, TextA>>, Fails({2}, "Invalid", 2)) }

\* the rule sets: at most MaxRules distinct rules of the pool, in any order
RuleSets ==
    {rs \in SeqsUpTo(RulePool, MaxRules) \ {<<>>} :
        \A i, j \in 1..Len(rs) : i # j => rs[i] # rs[j]}

(* ------------------------------ apply_all ------------------------------ *)

\* Vec::extend
extend(v, items) == v \o items

\* mutant of in_loop_range: an inclusive range, 0..=iterations_max
in_loop_range_Inclusive(i) == i <= iterations_max

\* for _ in 0..iterations_max: the loop has a turn left after i turns
in_loop_range(i) == i < iterations_max

NoResult == [kind |-> "none", stash |-> <<>>, err |-> NoError]

\* the sentences given to apply_all: the longer ones are made of letters and
\* spaces, the shorter ones of letters and '-'
Sentences ==
    SeqsUpTo(EngineAlphabet, MaxLen) \cup SeqsUpTo({"a", "-"}, MaxMixedLen)

Init ==
    /\ sentence \in Sentences
    /\ rules \in RuleSets
    /\ stash = <<>>
    /\ produced_nodes = <<>>
    /\ rule_ix = 1
    /\ iteration = 0
    /\ previous_stash_size = 0
    /\ pc = "apply_once"
    /\ result = NoResult
    /\ range = <<0, 0>>
    /\ accepted = FALSE
    /\ calls = <<>>
    /\ ml_idle

\* mutant of ApplyRule: the rule sees the nodes produced earlier in the
\* iteration
ApplyRule_SeesProduced ==
    /\ pc = "apply_once"
    /\ rule_ix <= Len(rules)
    /\ LET r == apply(rules[rule_ix], stash \o produced_nodes, sentence)
       IN  IF r.ok
           THEN /\ Len(stash) + Len(produced_nodes) + Len(r.nodes) <= MaxStash
                /\ produced_nodes' = extend(produced_nodes, r.nodes)
                /\ rule_ix' = rule_ix + 1
                /\ UNCHANGED <<pc, result>>
           ELSE /\ pc' = "done"
                /\ result' = [kind |-> "Err", stash |-> <<>>, err |-> r.err]
                /\ UNCHANGED <<produced_nodes, rule_ix>>
    /\ UNCHANGED <<sentence, rules, stash, iteration, previous_stash_size,
                   range, accepted, calls>>
    /\ UNCHANGED ml_vars

\* one turn of the loop of apply_once: rule.apply(stash, sentence)?
ApplyRule ==
    /\ pc = "apply_once"
    /\ rule_ix <= Len(rules)
    /\ LET r == apply(rules[rule_ix], stash, sentence)
       IN  IF r.ok
           THEN /\ Len(stash) + Len(produced_nodes) + Len(r.nodes) <= MaxStash
                /\ produced_nodes' = extend(produced_nodes, r.nodes)
                /\ rule_ix' = rule_ix + 1
                /\ UNCHANGED <<pc, result>>
           ELSE /\ pc' = "done"
                /\ result' = [kind |-> "Err", stash |-> <<>>, err |-> r.err]
                /\ UNCHANGED <<produced_nodes, rule_ix>>
    /\ UNCHANGED <<sentence, rules, stash, iteration, previous_stash_size,
                   range, accepted, calls>>
    /\ UNCHANGED ml_vars

\* mutant of EndIteration: the loop is left as soon as the stash has not
\* grown
EndIteration_BreakWhenSaturated ==
    /\ pc = "apply_once"
    /\ rule_ix > Len(rules)
    /\ stash' = extend(stash, produced_nodes)
    /\ produced_nodes' = <<>>
    /\ rule_ix' = 1
    /\ iteration' = iteration + 1
    /\ IF Len(stash') <= previous_stash_size
       THEN /\ pc' = "filter"
            /\ UNCHANGED previous_stash_size
       ELSE /\ previous_stash_size' = Len(stash')
            /\ pc' = IF in_loop_range(iteration + 1) THEN "apply_once" ELSE "filter"
    /\ UNCHANGED <<sentence, rules, result, range, accepted, calls>>
    /\ UNCHANGED ml_vars

\* the end of apply_once (stash.extend) and the rest of the loop body of
\* apply_all: the exit test, previous_stash_size and the loop counter
EndIteration ==
    /\ pc = "apply_once"
    /\ rule_ix > Len(rules)
    /\ stash' = extend(stash, produced_nodes)
    /\ produced_nodes' = <<>>
    /\ rule_ix' = 1
    /\ iteration' = iteration + 1
    /\ IF Len(stash') <= previous_stash_size /\ Len(stash') > max_stash_size
       THEN /\ pc' = "filter"
            /\ UNCHANGED previous_stash_size
       ELSE /\ previous_stash_size' = Len(stash')
            /\ pc' = IF in_loop_range(iteration + 1) THEN "apply_once" ELSE "filter"
    /\ UNCHANGED <<sentence, rules, result, range, accepted, calls>>
    /\ UNCHANGED ml_vars

\* mutant of Return: the stash is returned without the boundary filter
Return_Unfiltered ==
    /\ pc = "filter"
    /\ result' = [kind |-> "Ok", stash |-> stash, err |-> NoError]
    /\ pc' = "done"
    /\ UNCHANGED <<sentence, rules, stash, produced_nodes, rule_ix, iteration,
                   previous_stash_size, range, accepted, calls>>
    /\ UNCHANGED ml_vars

\* the return of apply_all: the entries of the stash with valid boundaries
Return ==
    /\ pc = "filter"
    /\ result' = [kind |-> "Ok",
                  stash |-> SelectSeq(stash, LAMBDA pn :
                     valid_boundaries(sentence, pn.root_node.range, alphanumeric_class)),
                  err |-> NoError]
    /\ pc' = "done"
    /\ UNCHANGED <<sentence, rules, stash, produced_nodes, rule_ix, iteration,
                   previous_stash_size, range, accepted, calls>>
    /\ UNCHANGED ml_vars

Next == ApplyRule \/ EndIteration \/ Return

Spec == Init /\ [][Next]_vars

(* ------------------- apply_all on short sentences --------------------- *)

\* the calls of apply_all on the sentences of letters and spaces of at most
\* MaxShortLen characters, with every rule set
InitShort ==
    /\ sentence \in SeqsUpTo(EngineAlphabet, MaxShortLen)
    /\ rules \in RuleSets
    /\ stash = <<>>
    /\ produced_nodes = <<>>
    /\ rule_ix = 1
    /\ iteration = 0
    /\ previous_stash_size = 0
    /\ pc = "apply_once"
    /\ result = NoResult
    /\ range = <<0, 0>>
    /\ accepted = FALSE
    /\ calls = <<>>
    /\ ml_idle

SpecShort == InitShort /\ [][Next]_vars

(* ----------------------- apply_all as a function ----------------------- *)

RECURSIVE apply_rules(_, _, _, _, _)
\* the loop of apply_once from rule i on: the nodes produced, or the first
\* error
apply_rules(rs, i, st, produced, s) ==
    IF i > Len(rs) THEN [ok |-> TRUE, nodes |-> produced, err |-> NoError]
    ELSE LET r == apply(rs[i], st, s)
         IN  IF r.ok
             THEN apply_rules(rs, i + 1, st, extend(produced, r.nodes), s)
             ELSE [ok |-> FALSE, nodes |-> <<>>, err |-> r.err]

\* RuleSet::apply_once
apply_once(rs, st, s) ==
    LET r == apply_rules(rs, 1, st, <<>>, s)
    IN  IF r.ok
        THEN [ok |-> TRUE, stash |-> extend(st, r.nodes), err |-> NoError]
        ELSE [ok |-> FALSE, stash |-> st, err |-> r.err]

RECURSIVE apply_all_loop(_, _, _, _, _)
\* the loop of apply_all from turn i on: the stash it leaves, or the error
apply_all_loop(rs, s, i, st, previous) ==
    IF ~in_loop_range(i) THEN [ok |-> TRUE, stash |-> st, err |-> NoError]
    ELSE LET o == apply_once(rs, st, s)
         IN  IF ~o.ok THEN o
             ELSE IF Len(o.stash) <= previous /\ Len(o.stash) > max_stash_size
             THEN o
             ELSE apply_all_loop(rs, s, i + 1, o.stash, Len(o.stash))

\* RuleSet::apply_all
apply_all(rs, s) ==
    LET o == apply_all_loop(rs, s, 0, <<>>, 0)
    IN  IF o.ok
        THEN [kind |-> "Ok",
              stash |-> SelectSeq(o.stash, LAMBDA pn :
                 valid_boundaries(s, pn.root_node.range, alphanumeric_class)),
              err |-> NoError]
        ELSE [kind |-> "Err", stash |-> <<>>, err |-> o.err]

(* ----------------------- valid_boundaries on its own ------------------- *)

\* the ranges Range(b, e) of a sentence, b <= e <= len
RangesOf(s) == {r \in (0..Len(s)) \X (0..Len(s)) : r[1] <= r[2]}

InitVB ==
    /\ sentence \in SeqsUpTo(Alphabet, MaxVBLen)
    /\ range \in RangesOf(sentence)
    /\ accepted = FALSE
    /\ pc = "vb_call"
    /\ rules = <<>>
    /\ stash = <<>>
    /\ produced_nodes = <<>>
    /\ rule_ix = 1
    /\ iteration = 0
    /\ previous_stash_size = 0
    /\ result = NoResult
    /\ calls = <<>>
    /\ ml_idle

\* a call valid_boundaries(sentence, range, &alphanumeric_class)
CallValidBoundaries ==
    /\ pc = "vb_call"
    /\ accepted' = valid_boundaries(sentence, range, alphanumeric_class)
    /\ pc' = "vb_done"
    /\ UNCHANGED <<sentence, rules, stash, produced_nodes, rule_ix, iteration,
                   previous_stash_size, result, range, calls>>
    /\ UNCHANGED ml_vars

NextVB == CallValidBoundaries

SpecVB == InitVB /\ [][NextVB]_vars

(* -------------------------- adjacent on its own ------------------------ *)

\* two nodes as in test_integer_numeric_compo_en_rule, over any two ranges of
\* the sentence
AdjacentNode(r) == ParsedNode(1, 10, r, <<>>)

InitAdj ==
    /\ sentence \in SeqsUpTo(Alphabet, MaxAdjLen)
    /\ stash \in {<<AdjacentNode(ra), AdjacentNode(rb)>> :
                     ra \in RangesOf(sentence), rb \in RangesOf(sentence)}
    /\ accepted = FALSE
    /\ pc = "adj_call"
    /\ rules = <<>>
    /\ produced_nodes = <<>>
    /\ rule_ix = 1
    /\ iteration = 0
    /\ previous_stash_size = 0
    /\ result = NoResult
    /\ range = <<0, 0>>
    /\ calls = <<>>
    /\ ml_idle

\* adjacent(&stash[0], &stash[1], sentence)
CallAdjacent ==
    /\ pc = "adj_call"
    /\ LET outcome == adjacent_eval(stash[1], stash[2], sentence)
       IN  /\ accepted' = (outcome = "true")
           /\ pc' = IF outcome = "panic" THEN "adj_panic" ELSE "adj_done"
    /\ UNCHANGED <<sentence, rules, stash, produced_nodes, rule_ix, iteration,
                   previous_stash_size, result, range, calls>>
    /\ UNCHANGED ml_vars

NextAdj == CallAdjacent

SpecAdj == InitAdj /\ [][NextAdj]_vars

(* ------------------ apply_all with rules of any kind ------------------- *)

\* a rule that is not one of Rule1..Rule5: Rule is a public trait, and the
\* apply of an implementation returns the nodes it likes
OpaqueRule == Rule(0, <<>>, Always(0))

\* the numbers of nodes the apply of such a rule returns: none, one, or as
\* many as the largest stash that does not end the loop
ProducedCounts == {0, 1, max_stash_size}

\* a node over the whole sentence "a"
OpaqueNode == ParsedNode(0, 0, <<0, 1>>, <<>>)

InitLoop ==
    /\ sentence = <<"a">>
    /\ rules = <<OpaqueRule>>
    /\ stash = <<>>
    /\ produced_nodes = <<>>
    /\ rule_ix = 1
    /\ iteration = 0
    /\ previous_stash_size = 0
    /\ pc = "apply_once"
    /\ result = NoResult
    /\ range = <<0, 0>>
    /\ accepted = FALSE
    /\ calls = <<>>
    /\ ml_idle

\* one turn of the loop of apply_once for a rule of any kind: its apply
\* returns n nodes
ApplyOpaqueRule ==
    /\ pc = "apply_once"
    /\ rule_ix <= Len(rules)
    /\ \E n \in ProducedCounts :
          /\ Len(stash) + Len(produced_nodes) + n <= MaxLoopStash
          /\ produced_nodes' = extend(produced_nodes, [i \in 1..n |-> OpaqueNode])
    /\ rule_ix' = rule_ix + 1
    /\ UNCHANGED <<sentence, rules, stash, iteration, previous_stash_size,
                   pc, result, range, accepted, calls>>
    /\ UNCHANGED ml_vars

NextLoop == ApplyOpaqueRule \/ EndIteration \/ Return

SpecLoop == InitLoop /\ [][NextLoop]_vars

(* ------------------------------ f32 values ----------------------------- *)

(***************************************************************************)
(* The log-probabilities of the classifier bank (ml/lib.rs) are f32.  The  *)
(* model gives a class log-probabilities that are whole multiples of ln 2  *)
(* (probabilities 1, 1/2, 1/4, ...), so that sums and products are exact:  *)
(* a log value is k * ln 2 plus and minus logarithms of sums of powers of  *)
(* two, or an infinity, or NaN.  A value of the linear domain (the result  *)
(* of exp and of sums of them) is a sum of powers of two, kept as the set  *)
(* of the exponents of its binary expansion with the 24 bits of an f32,    *)
(* or an infinity.  exp underflows to 0 below the smallest subnormal f32.  *)
(* The rounding of the last bit of additions is not modelled.              *)
(***************************************************************************)

\* 2^-149 is the smallest positive f32; exp gives 0 for a result of at most
\* half of it
f32_min_exp == 149
\* 2^128 is beyond the largest f32
f32_max_exp == 127
\* the bits of the significand of an f32
f32_mantissa_digits == 24

Fin(k, lnp, lnm) == [kind |-> "fin", k |-> k, lnp |-> lnp, lnm |-> lnm]
PosInf == [kind |-> "inf", k |-> 0, lnp |-> EmptyBag, lnm |-> EmptyBag]
NegInf == [kind |-> "neg_inf", k |-> 0, lnp |-> EmptyBag, lnm |-> EmptyBag]
NaN == [kind |-> "nan", k |-> 0, lnp |-> EmptyBag, lnm |-> EmptyBag]
\* the log value k * ln 2
Log2(k) == Fin(k, EmptyBag, EmptyBag)
\* 0.0
Zero == Log2(0)

\* f32 addition of log values
f32_add(a, b) ==
    CASE a.kind = "nan" \/ b.kind = "nan" -> NaN
      [] a.kind = "inf" -> IF b.kind = "neg_inf" THEN NaN ELSE PosInf
      [] a.kind = "neg_inf" -> IF b.kind = "inf" THEN NaN ELSE NegInf
      [] b.kind \in {"inf", "neg_inf"} -> b
      [] OTHER -> LET P == a.lnp (+) b.lnp
                      M == a.lnm (+) b.lnm
                  IN  Fin(a.k + b.k, P (-) M, M (-) P)

\* f32 negation of a log value
f32_neg(a) ==
    CASE a.kind = "inf" -> NegInf
      [] a.kind = "neg_inf" -> PosInf
      [] a.kind = "nan" -> NaN
      [] OTHER -> Fin(0 - a.k, a.lnm, a.lnp)

\* f32 subtraction of log values
f32_sub(a, b) == f32_add(a, f32_neg(b))

\* count as f32 * x
f32_mul_count(count, x) ==
    CASE x.kind = "nan" -> NaN
      [] x.kind \in {"inf", "neg_inf"} -> IF count = 0 THEN NaN ELSE x
      [] count = 0 -> Zero
      [] OTHER -> Fin(count * x.k,
                      [e \in DOMAIN x.lnp |-> count * x.lnp[e]],
                      [e \in DOMAIN x.lnm |-> count * x.lnm[e]])

\* f32::partial_cmp of two log values that differ by a multiple of ln 2
partial_cmp(a, b) ==
    CASE a.kind = "nan" \/ b.kind = "nan" -> "None"
      [] a.kind = b.kind /\ a.kind # "fin" -> "Equal"
      [] a.kind = "inf" \/ b.kind = "neg_inf" -> "Greater"
      [] a.kind = "neg_inf" \/ b.kind = "inf" -> "Less"
      [] OTHER -> IF a.k < b.k THEN "Less"
                  ELSE IF a.k > b.k THEN "Greater" ELSE "Equal"

\* the linear value 0.0, the linear value 2^k, the linear value +inf
LinZero == [kind |-> "fin", bits |-> {}]
LinInf == [kind |-> "inf", bits |-> {}]

RECURSIVE add_pow2(_, _)
\* the binary expansion of a sum of powers of two plus 2^k
add_pow2(bits, k) ==
    IF k \in bits THEN add_pow2(bits \ {k}, k + 1) ELSE bits \cup {k}

\* the highest exponent of a non-empty binary expansion
top_bit(bits) == CHOOSE b \in bits : \A c \in bits : c <= b

\* the expansion cut to the significand of an f32
f32_round(bits) ==
    IF bits = {} THEN {}
    ELSE {b \in bits : b > top_bit(bits) - f32_mantissa_digits}

RECURSIVE add_bits(_, _)
\* the sum of two binary expansions
add_bits(x, y) ==
    IF y = {} THEN x
    ELSE LET b == CHOOSE c \in y : TRUE
         IN  add_bits(add_pow2(x, b), y \ {b})

\* f32 addition of linear values
lin_add(x, y) ==
    IF x.kind = "inf" \/ y.kind = "inf" THEN LinInf
    ELSE [kind |-> "fin", bits |-> f32_round(add_bits(x.bits, y.bits))]

\* f32::exp of a log value that is a multiple of ln 2 or an infinity
f32_exp(x) ==
    CASE x.kind = "inf" -> LinInf
      [] x.kind = "neg_inf" -> LinZero
      [] OTHER -> IF x.k < 0 - f32_min_exp THEN LinZero
                  ELSE IF x.k > f32_max_exp THEN LinInf
                  ELSE [kind |-> "fin", bits |-> {x.k}]

\* f32::ln of a linear value
f32_ln(x) ==
    IF x.kind = "inf" THEN PosInf
    ELSE IF x.bits = {} THEN NegInf
    ELSE IF Cardinality(x.bits) = 1 THEN Log2(top_bit(x.bits))
    ELSE Fin(0, SetToBag({x.bits}), EmptyBag)

(* ---------------------------- classifier bank -------------------------- *)

\* ClassInfo: the log-probabilities are multiples of ln 2
ClassInfo(example_count, unk, class, feats) ==
    [example_count |-> example_count, unk_probalog |-> Log2(unk),
     class_probalog |-> Log2(class), feat_probalog |-> feats]

\* HashMap::get(feat).unwrap_or(&cinfo.unk_probalog)
feat_or_unk(cinfo, feat) ==
    IF feat \in DOMAIN cinfo.feat_probalog
    THEN cinfo.feat_probalog[feat]
    ELSE cinfo.unk_probalog

RECURSIVE sum_feats(_, _, _)
\* the sum over the entries of the bag of count as f32 * log-probability
sum_feats(cinfo, bag, feats) ==
    IF feats = {} THEN Zero
    ELSE LET feat == CHOOSE f \in feats : TRUE
         IN  f32_add(f32_mul_count(bag[feat], feat_or_unk(cinfo, feat)),
                     sum_feats(cinfo, bag, feats \ {feat}))

RECURSIVE sum_exp(_)
\* scores.iter().map(|p| f32::exp(p.1)).sum::<f32>()
sum_exp(scores) ==
    IF scores = <<>> THEN LinZero
    ELSE lin_add(f32_exp(Head(scores)[2]), sum_exp(Tail(scores)))

\* Classifier::scores; the classes of a classifier are the sequence of the
\* entries of its HashMap in the order its iterator gives them
Classifier_scores(self, bag) ==
    LET raw == [i \in 1..Len(self) |->
                  <<self[i].id,
                    f32_add(sum_feats(self[i].info, bag, DOMAIN bag),
                            self[i].info.class_probalog)>>]
        normlog == f32_ln(sum_exp(raw))
    IN  [i \in 1..Len(raw) |-> <<raw[i][1], f32_sub(raw[i][2], normlog)>>]

RECURSIVE max_by(_, _)
\* Iterator::max_by with the comparison
\* a.1.partial_cmp(&b.1).unwrap_or(Ordering::Equal): the element kept so far
\* is replaced unless it compares Greater
max_by(x, rest) ==
    IF rest = <<>> THEN x
    ELSE IF partial_cmp(x[2], Head(rest)[2]) = "Greater"
         THEN max_by(x, Tail(rest))
         ELSE max_by(Head(rest), Tail(rest))

NoPair == <<"", NaN>>
ClassifyOk(v) == [ok |-> TRUE, v |-> v, err |-> ""]
ClassifyErr(msg) == [ok |-> FALSE, v |-> NoPair, err |-> msg]

\* mutant of Classifier_classify: without classes a default pair is returned
Classifier_classify_DefaultOnEmpty(self, bag) ==
    LET scores == Classifier_scores(self, bag)
    IN  IF scores = <<>> THEN ClassifyOk(<<"", NegInf>>)
        ELSE ClassifyOk(max_by(Head(scores), Tail(scores)))

\* Classifier::classify
Classifier_classify(self, bag) ==
    LET scores == Classifier_scores(self, bag)
    IN  IF scores = <<>> THEN ClassifyErr("no classes in classifier")
        ELSE ClassifyOk(max_by(Head(scores), Tail(scores)))

\* Input
Input(classifier_id, features, children) ==
    [classifier_id |-> classifier_id, features |-> features, children |-> children]

\* the HashMap<Feat, usize> Model::classify builds from input.features
count_features(features) ==
    [feat \in {features[i] : i \in 1..Len(features)} |->
        Cardinality({i \in 1..Len(features) : features[i] = feat})]

RECURSIVE Model_classify_ParentClassifier(_, _, _)
RECURSIVE Model_classify(_, _, _)
RECURSIVE add_children(_, _, _, _)

\* the loop over input.children: probalog += self.classify(&child, target)?
add_children(self, children, tgt, probalog) ==
    IF children = <<>> THEN ClassifyOk(probalog)
    ELSE LET r == Model_classify(self, Head(children), tgt)
         IN  IF ~r.ok THEN r
             ELSE add_children(self, Tail(children), tgt, f32_add(probalog, r.v))

\* the score of the target class in a vector of scores:
\* find(|item| &item.0 == target).map(|item| item.1).unwrap_or(NEG_INFINITY)
find_target(scores, tgt) ==
    LET hits == SelectSeq(scores, LAMBDA item : item[1] = tgt)
    IN  IF hits = <<>> THEN NegInf ELSE Head(hits)[2]

\* mutant of Model_classify: the children are scored with the classifier of
\* their parent
Model_classify_ParentClassifier(self, inp, tgt) ==
    IF inp.classifier_id \notin DOMAIN self THEN ClassifyOk(Zero)
    ELSE LET bag == count_features(inp.features)
             probalog == find_target(Classifier_scores(self[inp.classifier_id], bag), tgt)
         IN  add_children(self,
                          [i \in 1..Len(inp.children) |->
                              [inp.children[i] EXCEPT !.classifier_id = inp.classifier_id]],
                          tgt, probalog)

\* Model::classify; a model is the function of its HashMap of classifiers
Model_classify(self, inp, tgt) ==
    IF inp.classifier_id \notin DOMAIN self THEN ClassifyOk(Zero)
    ELSE LET bag == count_features(inp.features)
             probalog == find_target(Classifier_scores(self[inp.classifier_id], bag), tgt)
         IN  add_children(self, inp.children, tgt, probalog)

(* ----------------------- calls of a Classifier ------------------------- *)

Features == {"Fish", "Cat"}
ClassIds == {"Cat", "Dog", "Human"}

\* the counts of a feature in a bag
Counts == {1, 2, MaxCount}

\* the functions from a subset of S to T
PartialFunctions(S, T) == UNION {[D -> T] : D \in SUBSET S}

ClassInfos ==
    {ClassInfo(4, unk, 0 - 1, feats) :
        unk \in {0 - 2, 0 - 3},
        feats \in PartialFunctions(Features, {Log2(0 - 1)})}

\* the classifiers of at most MaxClasses classes, in every iteration order
Classifiers ==
    {c \in SeqsUpTo([id : ClassIds, info : ClassInfos], MaxClasses) :
        \A i, j \in 1..Len(c) : i # j => c[i].id # c[j].id}

engine_idle ==
    /\ sentence = <<>>
    /\ rules = <<>>
    /\ stash = <<>>
    /\ produced_nodes = <<>>
    /\ rule_ix = 1
    /\ iteration = 0
    /\ previous_stash_size = 0
    /\ result = NoResult
    /\ range = <<0, 0>>
    /\ accepted = FALSE
    /\ calls = <<>>

InitClassifier ==
    /\ classifier \in Classifiers
    /\ bag_of_features \in PartialFunctions(Features, Counts)
    /\ model = <<>>
    /\ input = <<>>
    /\ target = ""
    /\ output = <<>>
    /\ pc = "classifier"
    /\ engine_idle

\* a call classifier.scores(&bag_of_features)
CallScores ==
    /\ pc = "classifier"
    /\ output' = Classifier_scores(classifier, bag_of_features)
    /\ pc' = "scores_done"
    /\ UNCHANGED <<classifier, bag_of_features, model, input, target>>
    /\ UNCHANGED engine_vars

\* a call classifier.classify(&bag_of_features)
CallClassify ==
    /\ pc = "classifier"
    /\ output' = Classifier_classify(classifier, bag_of_features)
    /\ pc' = "classify_done"
    /\ UNCHANGED <<classifier, bag_of_features, model, input, target>>
    /\ UNCHANGED engine_vars

NextClassifier == CallScores \/ CallClassify

SpecClassifier == InitClassifier /\ [][NextClassifier]_vars

(* --------------------------- Classifier::train ------------------------- *)

\* the binary expansion of a natural number
bits_of(n) == {i \in 0..30 : (n \div (2 ^ i)) % 2 = 1}

\* usize as f32: the nearest f32, the one with an even significand when two
\* are as near; below 2^24 every usize is an f32
usize_as_f32(n) ==
    IF n < 2 ^ f32_mantissa_digits THEN n
    ELSE LET unit == 2 ^ (top_bit(bits_of(n)) - f32_mantissa_digits + 1)
             q    == n \div unit
             r    == n % unit
         IN  IF 2 * r > unit \/ (2 * r = unit /\ q % 2 = 1)
             THEN (q + 1) * unit
             ELSE q * unit

\* mutant of f32_add_one: the count is taken as it is
f32_add_one_NoSmoothing(v) == usize_as_f32(v)

\* v as f32 + 1 as f32
f32_add_one(v) == usize_as_f32(usize_as_f32(v) + 1)

RECURSIVE gcd(_, _)
gcd(a, b) == IF b = 0 THEN a ELSE gcd(b, a % b)

RECURSIVE odd_part(_)
odd_part(n) == IF n % 2 = 0 THEN odd_part(n \div 2) ELSE n

\* f32::ln(n / d) of two f32 that are whole numbers: with n / d =
\* 2^k * a / b in lowest terms, a and b odd, it is k ln 2 + ln a - ln b
f32_ln_div(n, d) ==
    IF n = 0 THEN (IF d = 0 THEN NaN ELSE NegInf)
    ELSE IF d = 0 THEN PosInf
    ELSE LET g == gcd(n, d)
             a == odd_part(n \div g)
             b == odd_part(d \div g)
             k == top_bit(bits_of((n \div g) \div a)) - top_bit(bits_of((d \div g) \div b))
         IN  Fin(k,
                 IF a = 1 THEN EmptyBag ELSE SetToBag({bits_of(a)}),
                 IF b = 1 THEN EmptyBag ELSE SetToBag({bits_of(b)}))

RECURSIVE values_sum(_)
\* v.1.values().sum::<usize>()
values_sum(feats) ==
    IF DOMAIN feats = {} THEN 0
    ELSE LET f == CHOOSE x \in DOMAIN feats : TRUE
         IN  feats[f] + values_sum([x \in DOMAIN feats \ {f} |-> feats[x]])

RECURSIVE train_classes(_, _, _)
\* the loop over the examples from example i on: classes maps a class to its
\* number of examples and to the summed counts of its features
train_classes(examples, i, classes) ==
    IF i > Len(examples) THEN classes
    ELSE LET features == examples[i][1]
             class == examples[i][2]
             data == IF class \in DOMAIN classes THEN classes[class]
                     ELSE [n |-> 0, feats |-> <<>>]
             feats == [f \in DOMAIN data.feats \cup DOMAIN features |->
                         (IF f \in DOMAIN data.feats THEN data.feats[f] ELSE 0)
                         + (IF f \in DOMAIN features THEN features[f] ELSE 0)]
             new == [n |-> data.n + 1, feats |-> feats]
         IN  train_classes(examples, i + 1,
                [c \in DOMAIN classes \cup {class} |->
                    IF c = class THEN new ELSE classes[c]])

\* all_features after the loop
all_features(examples) == UNION {DOMAIN examples[i][1] : i \in 1..Len(examples)}

\* the ClassInfo of a class
class_info(v, total_features, total_examples) ==
    LET smooth_denom == usize_as_f32(total_features + values_sum(v.feats))
    IN  [example_count |-> v.n,
         class_probalog |-> f32_ln_div(usize_as_f32(v.n), usize_as_f32(total_examples)),
         unk_probalog |-> f32_ln_div(1, smooth_denom),
         feat_probalog |-> [f \in DOMAIN v.feats |->
                               f32_ln_div(f32_add_one(v.feats[f]), smooth_denom)]]

\* Classifier::train: the classes come in the order order of classes.into_iter()
Classifier_train(examples, order) ==
    LET classes == train_classes(examples, 1, <<>>)
        total_examples == Len(examples)
        total_features == Cardinality(all_features(examples))
    IN  [i \in 1..Len(order) |->
            [id |-> order[i],
             info |-> class_info(classes[order[i]], total_features, total_examples)]]

\* the counts of a feature in a training example
TrainCounts == {1, 2 ^ f32_mantissa_digits - 2, 2 ^ f32_mantissa_digits}

TrainClassIds == {"Cat", "Dog"}

\* the training sets of at most MaxExamples examples
Examples ==
    SeqsUpTo(PartialFunctions(Features, TrainCounts) \X TrainClassIds, MaxExamples)

\* the orders in which a HashMap of these keys can be iterated
IterationOrders(keys) ==
    {o \in [1..Cardinality(keys) -> keys] : \A i, j \in DOMAIN o : i # j => o[i] # o[j]}

InitTrain ==
    /\ input \in Examples
    /\ classifier = <<>>
    /\ bag_of_features = <<>>
    /\ model = <<>>
    /\ target = ""
    /\ output = <<>>
    /\ pc = "train"
    /\ engine_idle

\* a call Classifier::train(&input)
CallTrain ==
    /\ pc = "train"
    /\ \E order \in IterationOrders(DOMAIN train_classes(input, 1, <<>>)) :
          classifier' = Classifier_train(input, order)
    /\ pc' = "train_done"
    /\ UNCHANGED <<bag_of_features, model, input, target, output>>
    /\ UNCHANGED engine_vars

NextTrain == CallTrain

SpecTrain == InitTrain /\ [][NextTrain]_vars

(* ------------------------ calls of Model::classify --------------------- *)

\* the classifier of the tests, with log-probabilities that are multiples
\* of ln 2
mammals_classifier ==
    << [id |-> "Cat",
        info |-> ClassInfo(4, 0 - 3, 0 - 1,
                           [f \in {"Fish", "Cat"} |-> Log2(0 - 1)])],
       [id |-> "Dog",
        info |-> ClassInfo(4, 0 - 3, 0 - 1,
                           [f \in {"Cat"} |-> Log2(0 - 2)])] >>

\* the model of test_model: a classifier with classes and one without
Models == { [id \in {"mammals", "void"} |->
               IF id = "mammals" THEN mammals_classifier ELSE <<>>] }

\* the classifier ids an input names: two the model knows, one it does not
ClassifierIds == {"mammals", "void", "other"}

FeatureVecs == {<<"Fish">>, <<"Fish", "Cat", "Fish">>}

RECURSIVE InputsOfSize(_)
RECURSIVE ChildrenOfSize(_)
\* the sequences of inputs that have n nodes in all
ChildrenOfSize(n) ==
    IF n = 0 THEN {<<>>}
    ELSE UNION { {<<first>> \o rest : first \in InputsOfSize(j),
                                      rest \in ChildrenOfSize(n - j)} :
                 j \in 1..n }

\* the inputs that have n nodes
InputsOfSize(n) ==
    {Input(id, features, children) :
        id \in ClassifierIds, features \in FeatureVecs,
        children \in ChildrenOfSize(n - 1)}

Inputs == UNION {InputsOfSize(n) : n \in 1..MaxNodes}

InitModel ==
    /\ model \in Models
    /\ input \in Inputs
    /\ target \in ClassIds
    /\ classifier = <<>>
    /\ bag_of_features = <<>>
    /\ output = <<>>
    /\ pc = "model"
    /\ engine_idle

\* a call model.classify(&input, &target)
CallModelClassify ==
    /\ pc = "model"
    /\ output' = Model_classify(model, input, target)
    /\ pc' = "model_done"
    /\ UNCHANGED <<classifier, bag_of_features, model, input, target>>
    /\ UNCHANGED engine_vars

NextModel == CallModelClassify

SpecModel == InitModel /\ [][NextModel]_vars

(* ------------------- two calls of apply_all at once -------------------- *)

\* the rules of the rule set two calls share
ParRulePool ==
    { Rule(1, <<TextA>>, Always(1)),
      Rule(1, <<TextA>>, Always(2)),
      Rule(3, <<AnyNodePattern>>, Fails({1}, "Invalid", 2)),
      Rule(4, <<AnyNodePattern, AnyNodePattern>>, SumUnless({3}, "Invalid")) }

ParRuleSets ==
    {rs \in SeqsUpTo(ParRulePool, MaxRules) :
        /\ rs # <<>>
        /\ \A i, j \in 1..Len(rs) : i # j => rs[i] # rs[j]}

\* the threads that call apply_all on the same RuleSet
Threads == {1, 2}

\* the locals of a call of apply_all that has not run yet
NewCall(s) ==
    [sentence |-> s, stash |-> <<>>, produced_nodes |-> <<>>, rule_ix |-> 1,
     iteration |-> 0, previous_stash_size |-> 0, pc |-> "apply_once",
     result |-> NoResult]

InitPar ==
    /\ rules \in ParRuleSets
    /\ calls \in [Threads -> {NewCall(s) : s \in SeqsUpTo({"a"}, MaxParLen)}]
    /\ sentence = <<>>
    /\ stash = <<>>
    /\ produced_nodes = <<>>
    /\ rule_ix = 1
    /\ iteration = 0
    /\ previous_stash_size = 0
    /\ pc = "par"
    /\ result = NoResult
    /\ range = <<0, 0>>
    /\ accepted = FALSE
    /\ ml_idle

\* thread t runs one turn of the loop of apply_once on its own locals
ThreadApplyRule(t) ==
    /\ calls[t].pc = "apply_once"
    /\ calls[t].rule_ix <= Len(rules)
    /\ LET c == calls[t]
           r == apply(rules[c.rule_ix], c.stash, c.sentence)
       IN  IF r.ok
           THEN /\ Len(c.stash) + Len(c.produced_nodes) + Len(r.nodes) <= MaxStash
                /\ calls' = [calls EXCEPT
                       ![t].produced_nodes = extend(c.produced_nodes, r.nodes),
                       ![t].rule_ix = c.rule_ix + 1]
           ELSE calls' = [calls EXCEPT
                       ![t].pc = "done",
                       ![t].result = [kind |-> "Err", stash |-> <<>>, err |-> r.err]]
    /\ UNCHANGED <<sentence, rules, stash, produced_nodes, rule_ix, iteration,
                   previous_stash_size, pc, result, range, accepted>>
    /\ UNCHANGED ml_vars

\* mutant of ThreadEndIteration: the stash is shared, the produced nodes of a
\* thread are appended to the stash of every call
ThreadEndIteration_SharedStash(t) ==
    /\ calls[t].pc = "apply_once"
    /\ calls[t].rule_ix > Len(rules)
    /\ LET c == calls[t]
           st == extend(c.stash, c.produced_nodes)
           brk == Len(st) <= c.previous_stash_size /\ Len(st) > max_stash_size
       IN  calls' = [u \in Threads |->
              IF u = t
              THEN [c EXCEPT
                       !.stash = st,
                       !.produced_nodes = <<>>,
                       !.rule_ix = 1,
                       !.iteration = c.iteration + 1,
                       !.previous_stash_size = IF brk THEN c.previous_stash_size ELSE Len(st),
                       !.pc = IF brk \/ ~in_loop_range(c.iteration + 1)
                              THEN "filter" ELSE "apply_once"]
              ELSE [calls[u] EXCEPT !.stash = extend(calls[u].stash, c.produced_nodes)]]
    /\ UNCHANGED <<sentence, rules, stash, produced_nodes, rule_ix, iteration,
                   previous_stash_size, pc, result, range, accepted>>
    /\ UNCHANGED ml_vars

\* thread t ends an iteration: stash.extend, exit test, previous_stash_size
ThreadEndIteration(t) ==
    /\ calls[t].pc = "apply_once"
    /\ calls[t].rule_ix > Len(rules)
    /\ LET c == calls[t]
           st == extend(c.stash, c.produced_nodes)
           brk == Len(st) <= c.previous_stash_size /\ Len(st) > max_stash_size
       IN  calls' = [calls EXCEPT
                       ![t].stash = st,
                       ![t].produced_nodes = <<>>,
                       ![t].rule_ix = 1,
                       ![t].iteration = c.iteration + 1,
                       ![t].previous_stash_size = IF brk THEN c.previous_stash_size ELSE Len(st),
                       ![t].pc = IF brk \/ ~in_loop_range(c.iteration + 1)
                                 THEN "filter" ELSE "apply_once"]
    /\ UNCHANGED <<sentence, rules, stash, produced_nodes, rule_ix, iteration,
                   previous_stash_size, pc, result, range, accepted>>
    /\ UNCHANGED ml_vars

\* thread t returns the entries of its stash with valid boundaries
ThreadReturn(t) ==
    /\ calls[t].pc = "filter"
    /\ calls' = [calls EXCEPT
          ![t].pc = "done",
          ![t].result = [kind |-> "Ok",
                         stash |-> SelectSeq(calls[t].stash, LAMBDA pn :
                            valid_boundaries(calls[t].sentence, pn.root_node.range,
                                             alphanumeric_class)),
                         err |-> NoError]]
    /\ UNCHANGED <<sentence, rules, stash, produced_nodes, rule_ix, iteration,
                   previous_stash_size, pc, result, range, accepted>>
    /\ UNCHANGED ml_vars

NextPar ==
    \E t \in Threads :
        ThreadApplyRule(t) \/ ThreadEndIteration(t) \/ ThreadReturn(t)

SpecPar == InitPar /\ [][NextPar]_vars

(* -------------------------------- claims ------------------------------- *)

\* C1: every node of the stash returned by apply_all satisfies
\* valid_boundaries(sentence, node.root.range) under the alphanumeric class.
C1_ReturnedNodesHaveValidBoundaries ==
    result.kind = "Ok" =>
        \A i \in 1..Len(result.stash) :
            valid_boundaries(sentence, result.stash[i].root_node.range,
                             alphanumeric_class)

\* C1 witness: a call has returned a non-empty stash from which the filter
\* removed at least one node.
C1_Witness ==
    /\ result.kind = "Ok"
    /\ Len(result.stash) > 0
    /\ Len(result.stash) < Len(stash)

\* C2: two distinct stash entries never have both the same rule_sym and
\* structurally equal children, at every point of an apply_all call and for
\* every rule set, rule sets with two rules of the same symbol included.
C2_NoSharedIdentity ==
    \A i, j \in 1..Len(stash) :
        i # j => ~ /\ stash[i].root_node.rule_sym = stash[j].root_node.rule_sym
                   /\ stash[i].root_node.children = stash[j].root_node.children

\* C3: when the production of a rule of arity 2, 3, 4 or 5 returns
\* Err(Invalid) the tuple is dropped and apply_all does not return an error:
\* a call that ended with the error of an Invalid production ended in a rule
\* of arity 1.
C3_InvalidDroppedByArity2To5 ==
    (result.kind = "Err" /\ result.err = make_production_error("Invalid"))
        => Len(rules[rule_ix].pattern) = 1

\* C4: apply_all runs apply_once at most MAX_ITERATIONS = 10 times: the
\* count of finished iterations never exceeds 10, and after the 10th the
\* call is past its loop.
C4_AtMostMaxIterations ==
    /\ iteration <= 10
    /\ iteration = 10 => pc \in {"filter", "done"}
    /\ pc = "apply_once" => iteration < 10

\* C4 witness: a call has returned after 10 iterations each of which added
\* a node to the stash.
C4_Witness ==
    /\ pc = "done"
    /\ result.kind = "Ok"
    /\ iteration = 10
    /\ Len(stash) = 10
    /\ \A i \in 1..10 : Len(stash[i].root_node.children) = 1

\* the roots of the entries of a stash
RootsOf(st) == {st[i].root_node : i \in 1..Len(st)}

\* C5: within one iteration every rule is applied to the stash as it was
\* before the iteration: the stash does not change while the rules are
\* applied, every child of a produced node is a text match or the root of an
\* entry of that stash (never a node produced earlier in the iteration), and
\* the stash changes only when all rules are done, by appending all the
\* produced nodes together.
C5_SameSnapshotForEveryRule ==
    [][ /\ (pc = "apply_once" /\ rule_ix <= Len(rules)) => stash' = stash
        /\ \A i \in 1..Len(produced_nodes') :
             \A k \in 1..Len(produced_nodes'[i].root_node.children) :
                LET child == produced_nodes'[i].root_node.children[k]
                IN  child.children # <<>> => child \in RootsOf(stash)
        /\ stash' # stash =>
             /\ rule_ix > Len(rules)
             /\ stash' = stash \o produced_nodes
      ]_vars

\* C5 witness: in the first iteration the first rule has produced nodes and
\* the second rule, whose first pattern matches any node, has been applied
\* after it to the still empty stash.
C5_Witness ==
    /\ iteration = 0
    /\ stash = <<>>
    /\ rule_ix > 2
    /\ produced_nodes # <<>>
    /\ rules[2].pattern[1].kind = "AnyNode"

\* the tuples a rule finds, whatever its arity
MatchesOf(rule, st, s) ==
    CASE Len(rule.pattern) = 1 ->
           LET ms == Rule1_matches(rule, st, s)
           IN  [i \in 1..Len(ms) |-> <<ms[i]>>]
      [] Len(rule.pattern) = 2 -> Rule2_matches(rule, st, s)
      [] Len(rule.pattern) = 3 -> Rule3_matches(rule, st, s)
      [] Len(rule.pattern) = 4 -> Rule4_matches(rule, st, s)
      [] Len(rule.pattern) = 5 -> Rule5_matches(rule, st, s)

\* the errors the production of a rule returns on the tuples that are not
\* yet in the stash
ProductionErrors(rule, st, s) ==
    LET ms == MatchesOf(rule, st, s)
    IN  { production(rule.production, ms[i], s).e :
            i \in { j \in 1..Len(ms) :
                      /\ not_in_stash(st, rule.sym,
                            [k \in 1..Len(ms[j]) |-> to_node(ms[j][k])])
                      /\ ~production(rule.production, ms[j], s).ok } }

\* C6: a production error other than Invalid (for a rule of arity 1,
\* Invalid too) aborts apply_all: the call returns a ProductionRuleError that
\* wraps the text of a production error and returns no stash.
C6_ProductionErrorAborts ==
    [][ ( /\ pc = "apply_once"
          /\ rule_ix <= Len(rules)
          /\ \E e \in ProductionErrors(rules[rule_ix], stash, sentence) :
                e # "Invalid" \/ Len(rules[rule_ix].pattern) = 1 )
        => /\ pc' = "done"
           /\ result'.kind = "Err"
           /\ result'.stash = <<>>
           /\ result'.err.kind = "ProductionRuleError"
           /\ \E e \in ProductionErrors(rules[rule_ix], stash, sentence) :
                result'.err.t = format_debug(e)
      ]_vars

\* C6 witness: a call that had nodes in its stash has returned the
\* ProductionRuleError of a production error that is not Invalid.
C6_Witness ==
    /\ pc = "done"
    /\ result.kind = "Err"
    /\ result.err = make_production_error("NumParseInt")
    /\ Len(stash) > 0

\* C7: when the production of a rule of arity 1 returns Err(Invalid), the
\* rule application yields a ProductionRuleError and no nodes: the match is
\* not dropped.
C7_Arity1InvalidIsFatal ==
    [][ ( /\ pc = "apply_once"
          /\ rule_ix <= Len(rules)
          /\ Len(rules[rule_ix].pattern) = 1
          /\ ProductionErrors(rules[rule_ix], stash, sentence) = {"Invalid"} )
        => /\ result'.kind = "Err"
           /\ result'.err = make_production_error("Invalid")
           /\ produced_nodes' = produced_nodes
      ]_vars

\* C7 witness: a call has returned the ProductionRuleError of an Invalid
\* production from a rule of arity 1.
C7_Witness ==
    /\ result.kind = "Err"
    /\ result.err = make_production_error("Invalid")
    /\ Len(rules[rule_ix].pattern) = 1

\* C8: for every node produced by a rule of arity >= 2, each child ends at
\* or before the next child begins with only whitespace or '-' between, and
\* the node's range is [first_child.begin, last_child.end); every produced
\* node has range.begin <= range.end.
C8_ChildrenChainAndRange ==
    \A n \in RootsOf(stash \o produced_nodes) :
        /\ n.range[1] <= n.range[2]
        /\ Len(n.children) >= 2 =>
             /\ \A i \in 1..(Len(n.children) - 1) :
                  /\ n.children[i].range[2] <= n.children[i + 1].range[1]
                  /\ \A k \in (n.children[i].range[2] + 1)..n.children[i + 1].range[1] :
                        sentence[k] \in {" ", "-"}
             /\ n.range = <<n.children[1].range[1],
                            n.children[Len(n.children)].range[2]>>

\* C8 witness: the stash holds a node of two children that are apart in the
\* sentence, with a '-' between them.
C8_Witness ==
    \E n \in RootsOf(stash) :
        /\ Len(n.children) = 2
        /\ n.children[1].range[2] < n.children[2].range[1]
        /\ sentence[n.children[1].range[2] + 1] = "-"

\* the class the alphanumeric class gives the character at offset i (0-based)
ClassAt(s, i) == IF s[i + 1] \in {"a", "1"} THEN "A" ELSE s[i + 1]

\* the character at offset i is alphanumeric
AlnumAt(s, i) == s[i + 1] \in {"a", "1"}

\* C9: valid_boundaries accepts exactly when the class of the first character
\* inside the range differs from the class of the character just before it
\* and the class of the last character inside differs from the class of the
\* character just after it, a missing character differing from every class;
\* with the alphanumeric class a span is rejected whenever an alphanumeric
\* end of it touches an alphanumeric character outside it.  An empty range
\* has no character inside: its missing inner character differs from the
\* outer one exactly when the outer one exists.
C9_ValidBoundariesAccepts ==
    pc = "vb_done" =>
        LET b == range[1]
            e == range[2]
            leftDiffers  == IF b < e
                            THEN b = 0 \/ ClassAt(sentence, b) # ClassAt(sentence, b - 1)
                            ELSE b > 0
            rightDiffers == IF b < e
                            THEN e = Len(sentence)
                                 \/ ClassAt(sentence, e - 1) # ClassAt(sentence, e)
                            ELSE e < Len(sentence)
        IN  /\ accepted = (leftDiffers /\ rightDiffers)
            /\ (b < e /\ b > 0 /\ AlnumAt(sentence, b) /\ AlnumAt(sentence, b - 1))
                  => ~accepted
            /\ (b < e /\ e < Len(sentence) /\ AlnumAt(sentence, e - 1)
                  /\ AlnumAt(sentence, e)) => ~accepted

\* C9 witness: the letter span of a letter-digit word ("def" in "def123")
\* has been rejected.
C9_Witness ==
    /\ pc = "vb_done"
    /\ sentence = <<"a", "a", "1", " ">>
    /\ range = <<0, 2>>
    /\ ~accepted

RECURSIVE IsSubseq(_, _)
\* a is b with some entries removed, the others in the same order
IsSubseq(a, b) ==
    IF a = <<>> THEN TRUE
    ELSE IF b = <<>> THEN FALSE
    ELSE IF Head(a) = Head(b) THEN IsSubseq(Tail(a), Tail(b))
    ELSE IsSubseq(a, Tail(b))

\* a is the beginning of b
IsPrefix(a, b) == Len(a) <= Len(b) /\ SubSeq(b, 1, Len(a)) = a

\* the place of a child in the matches of the pattern it comes from
MatchIndex(p, st, s, child) ==
    LET ms == predicate(p, st, s)
    IN  CHOOSE n \in 1..Len(ms) :
           /\ to_node(ms[n]) = child
           /\ \A k \in 1..(n - 1) : to_node(ms[k]) # child

\* the places of the children of a node in the matches of a rule's patterns
TupleKey(rule, st, s, n) ==
    [k \in 1..Len(n.children) |-> MatchIndex(rule.pattern[k], st, s, n.children[k])]

\* lexicographic order on sequences of integers of the same length
LexLeq(x, y) ==
    \/ x = y
    \/ \E k \in 1..Len(x) :
          /\ x[k] < y[k]
          /\ \A j \in 1..(k - 1) : x[j] = y[j]

\* C10: the stash is append-only and in insertion order: a rule appends its
\* nodes after those of the rules declared before it, in the nested-loop
\* (lexicographic) order of its match tuples; the nodes of an iteration are
\* appended after those of the earlier iterations; and the returned stash is
\* the stash with nodes removed and the others in the same order.
C10_InsertionOrder ==
    [][ /\ IsPrefix(stash, stash')
        /\ (pc = "apply_once" /\ rule_ix <= Len(rules) /\ pc' = "apply_once") =>
             /\ IsPrefix(produced_nodes, produced_nodes')
             /\ \A i \in (Len(produced_nodes) + 1)..Len(produced_nodes') :
                  /\ produced_nodes'[i].root_node.rule_sym = rules[rule_ix].sym
                  /\ \A j \in (i + 1)..Len(produced_nodes') :
                       LexLeq(TupleKey(rules[rule_ix], stash, sentence,
                                       produced_nodes'[i].root_node),
                              TupleKey(rules[rule_ix], stash, sentence,
                                       produced_nodes'[j].root_node))
        /\ (pc = "apply_once" /\ rule_ix > Len(rules)) =>
             stash' = stash \o produced_nodes
        /\ (pc = "filter" /\ pc' = "done") =>
             /\ result'.kind = "Ok"
             /\ IsSubseq(result'.stash, stash)
      ]_vars

\* C10 witness: a call has returned at least two nodes of different rules,
\* a node of the first iteration before a node of a later one, after the
\* filter removed a node.
C10_Witness ==
    /\ pc = "done"
    /\ result.kind = "Ok"
    /\ Len(result.stash) < Len(stash)
    /\ \E i, j \in 1..Len(result.stash) :
          /\ i < j
          /\ result.stash[i].root_node.rule_sym # result.stash[j].root_node.rule_sym
          /\ Len(result.stash[i].root_node.children) = 1
          /\ Len(result.stash[j].root_node.children) = 2

\* C11: two calls of apply_all that run at once on the same RuleSet share no
\* mutable state: a step of one call changes nothing of the other call nor of
\* the rule set, and under every interleaving a call that returns returns
\* what apply_all returns for its sentence when it runs alone.
C11_ConcurrentCallsAreIndependent ==
    [][ /\ rules' = rules
        /\ \A t \in DOMAIN calls :
             /\ calls'[t] # calls[t] =>
                  \A u \in DOMAIN calls \ {t} : calls'[u] = calls[u]
             /\ calls'[t].pc = "done" =>
                  calls'[t].result = apply_all(rules, calls[t].sentence)
      ]_vars

\* C11 witness: the first call has returned its nodes while the second, on
\* another sentence, is in the middle of an iteration with nodes in its
\* stash and nodes produced.
C11_Witness ==
    /\ pc = "par"
    /\ calls[1].pc = "done"
    /\ calls[1].result.kind = "Ok"
    /\ calls[1].result.stash # <<>>
    /\ calls[2].pc = "apply_once"
    /\ calls[2].sentence # calls[1].sentence
    /\ calls[2].stash # <<>>
    /\ calls[2].produced_nodes # <<>>

\* the places of the scores that no other score exceeds
MaximaOf(scores) ==
    {i \in 1..Len(scores) :
        \A j \in 1..Len(scores) :
            partial_cmp(scores[j][2], scores[i][2]) \in {"Less", "Equal"}}

\* C12: Classifier::classify returns the pair of the scores with the maximum
\* logprob, and of several pairs with the maximum logprob the one that comes
\* first in the order of the scores.
C12_ClassifyReturnsFirstMaximum ==
    (pc = "classify_done" /\ output.ok) =>
        LET scores == Classifier_scores(classifier, bag_of_features)
            first == CHOOSE i \in MaximaOf(scores) : \A j \in MaximaOf(scores) : i <= j
        IN  /\ MaximaOf(scores) # {}
            /\ output.v = scores[first]

\* C14: Classifier::classify on a classifier without classes fails with a
\* ClassifyError and returns no class, whatever the bag of features.
C14_NoClassesIsAnError ==
    (pc = "classify_done" /\ classifier = <<>>) =>
        /\ ~output.ok
        /\ output.err = "no classes in classifier"

\* C14 witness: classify has failed on a classifier without classes for a
\* bag that is not empty.
C14_Witness ==
    /\ pc = "classify_done"
    /\ classifier = <<>>
    /\ DOMAIN bag_of_features = Features
    /\ ~output.ok

\* 2^n for n >= 0
pow2(n) == 2 ^ n

RECURSIVE weight(_, _)
\* a binary expansion in units of 2^(top - 24), without what lies below a unit
weight(bits, top) ==
    IF bits = {} THEN 0
    ELSE LET b == CHOOSE c \in bits : TRUE
         IN  (IF b >= top - 24 THEN pow2(b - top + 24) ELSE 0)
             + weight(bits \ {b}, top)

\* the sum of a logarithm that a finite score subtracts, 1 if there is none
denominator(score) ==
    IF score.lnm = EmptyBag THEN {0}
    ELSE CHOOSE bits \in DOMAIN score.lnm : TRUE

RECURSIVE numerator(_)
\* the sum over finite scores of one denominator S of exp(score) * S, a term
\* being 0 where exp(score) underflows
numerator(scores) ==
    IF scores = <<>> THEN {}
    ELSE LET score == Head(scores)[2]
             rest == numerator(Tail(scores))
         IN  IF score.k - top_bit(denominator(score)) < 0 - f32_min_exp
             THEN rest
             ELSE add_pow2(rest, score.k)

\* the sum over the scores of exp(score) is above 0.9999 and below 1.0001
exp_sum_is_one(scores) ==
    /\ scores # <<>>
    /\ \A i \in 1..Len(scores) :
          /\ scores[i][2].kind = "fin"
          /\ scores[i][2].lnp = EmptyBag
          /\ denominator(scores[i][2]) = denominator(scores[1][2])
    /\ LET S == denominator(scores[1][2])
           A == numerator(scores)
       IN  /\ A # {}
           /\ LET top == IF top_bit(A) > top_bit(S) THEN top_bit(A) ELSE top_bit(S)
                  a == weight(A, top)
                  d == weight(S, top)
                  diff == IF a > d THEN a - d ELSE d - a
              IN  diff <= (d - 1) \div 10000

\* C16: for a classifier with at least one class and any bag of features the
\* scores of Classifier::scores are normalized: the sum over the classes of
\* exp(score) is 1 within 1e-4.
C16_ScoresAreNormalized ==
    (pc = "scores_done" /\ classifier # <<>>) => exp_sum_is_one(output)

RECURSIVE ScoredNodes(_, _)
\* the nodes of an input that lie under known classifier ids only, themselves
\* included, as a sequence
ScoredNodes(m, inp) ==
    IF inp.classifier_id \notin DOMAIN m THEN <<>>
    ELSE <<inp>> \o ConcatAll([i \in 1..Len(inp.children) |->
                                  ScoredNodes(m, inp.children[i])])

\* the score the classifier of a node gives the class on the features of the
\* node alone, -inf if it has no such class
LevelScore(m, node, class) ==
    LET scores == Classifier_scores(m[node.classifier_id],
                                    count_features(node.features))
    IN  IF \E i \in 1..Len(scores) : scores[i][1] = class
        THEN scores[CHOOSE i \in 1..Len(scores) : scores[i][1] = class][2]
        ELSE NegInf

RECURSIVE SumOfLevels(_, _, _)
SumOfLevels(m, nodes, class) ==
    IF nodes = <<>> THEN Zero
    ELSE f32_add(LevelScore(m, Head(nodes), class),
                 SumOfLevels(m, Tail(nodes), class))

\* C13: Model::classify returns 0.0 for an input whose classifier_id the
\* model does not know, and otherwise the score of the target class at the
\* node plus what it returns for each child, the child being scored with its
\* own classifier_id: the result is the sum of the per-level scores of the
\* nodes that lie under known classifier ids.
C13_ModelClassifySumsLevels ==
    pc = "model_done" =>
        /\ output.ok
        /\ input.classifier_id \notin DOMAIN model => output.v = Zero
        /\ input.classifier_id \in DOMAIN model =>
             /\ output.v = SumOfLevels(model, ScoredNodes(model, input), target)
             /\ Len(input.children) = 0 =>
                  output.v = LevelScore(model, input, target)
             /\ (Len(input.children) = 1 /\ Len(input.children[1].children) = 0
                 /\ input.children[1].classifier_id \in DOMAIN model) =>
                  output.v = f32_add(LevelScore(model, input, target),
                                     LevelScore(model, input.children[1], target))

\* C13 witness: classify has returned a finite score that is not 0.0 for an
\* input with a child of its own classifier, with other features, and a
\* child of a classifier the model does not know.
C13_Witness ==
    /\ pc = "model_done"
    /\ input.classifier_id = "mammals"
    /\ Len(input.children) = 2
    /\ input.children[1].classifier_id = "mammals"
    /\ input.children[1].features # input.features
    /\ input.children[2].classifier_id = "other"
    /\ output.ok
    /\ output.v.kind = "fin"
    /\ output.v # Zero

\* C15: when the input of Model::classify, or a node of it that is visited,
\* names a classifier without classes, Model::classify returns an error and
\* no log-probability.
C15_ModelSurfacesNoClasses ==
    (pc = "model_done"
       /\ \E i \in 1..Len(ScoredNodes(model, input)) :
             model[ScoredNodes(model, input)[i].classifier_id] = <<>>)
        => ~output.ok

\* C17: apply_all leaves its loop before the 10th iteration exactly when,
\* after an iteration, the stash has not grown and holds more than 600
\* entries; a call whose stash never holds more than 600 entries runs all 10
\* iterations, also when an iteration added no node.
C17_EarlyExitOnlyWhenSaturatedAndLarge ==
    [][ /\ (pc = "apply_once" /\ rule_ix > Len(rules) /\ iteration' < 10) =>
             (pc' = "filter"
                <=> (Len(stash') <= previous_stash_size /\ Len(stash') > 600))
        /\ (pc' = "filter" /\ Len(stash') <= 600) => iteration' = 10
      ]_vars

\* C17 witness: the loop has been left before the 10th iteration with more
\* than 600 entries in the stash, after an earlier iteration that added no
\* node to a stash of 600 entries or less did not end it.
C17_Witness ==
    /\ pc = "filter"
    /\ iteration < 10
    /\ iteration > 3
    /\ Len(stash) = 601
    /\ previous_stash_size = 601

\* C18: adjacent(a, b, sentence) holds exactly when a ends at or before the
\* begin of b and every character of the sentence between them is whitespace
\* or '-'; matches that touch are adjacent, and matches that overlap or come
\* in the other order are rejected without slicing the sentence, so that the
\* call does not panic.
C18_AdjacentIsOrderedWithBlankGap ==
    LET a_end == stash[1].root_node.range[2]
        b_begin == stash[2].root_node.range[1]
    IN  /\ pc # "adj_panic"
        /\ pc = "adj_done" =>
             /\ accepted <=> /\ a_end <= b_begin
                             /\ \A i \in (a_end + 1)..b_begin : sentence[i] \in {" ", "-"}
             /\ a_end = b_begin => accepted
             /\ a_end > b_begin => ~accepted

\* C18 witness: a call has accepted two matches with a gap of a blank and a
\* '-' between them.
C18_Witness ==
    /\ pc = "adj_done"
    /\ accepted
    /\ stash[2].root_node.range[1] = stash[1].root_node.range[2] + 2
    /\ sentence[stash[1].root_node.range[2] + 1] = " "
    /\ sentence[stash[1].root_node.range[2] + 2] = "-"

\* the span of a node passes valid_boundaries
SpanIsValid(n) == valid_boundaries(sentence, n.range, alphanumeric_class)

\* the characters of the sentence between two stash entries are blanks or '-'
BlankGap(x, y) ==
    /\ x.root_node.range[2] <= y.root_node.range[1]
    /\ \A k \in (x.root_node.range[2] + 1)..y.root_node.range[1] :
          sentence[k] \in {" ", "-"}

\* C19: the boundary filter is applied once, to the final stash. While the
\* iterations run, every produced node is added to the working stash whether
\* or not its span passes valid_boundaries, and a rule of two node patterns
\* makes its node of every adjacent pair of entries of the working stash that
\* its production accepts, whether or not their spans pass; the returned
\* stash is the working stash without the entries whose span fails.
C19_FilterOnlyAtTheEnd ==
    [][ /\ (pc = "apply_once" /\ rule_ix > Len(rules)) =>
              stash' = stash \o produced_nodes
        /\ (/\ pc = "apply_once" /\ pc' = "apply_once"
            /\ rule_ix <= Len(rules)
            /\ rules[rule_ix].pattern = <<AnyNodePattern, AnyNodePattern>>) =>
              \A i, j \in 1..Len(stash) :
                 LET pair == <<stash[i].root_node, stash[j].root_node>>
                     sym  == rules[rule_ix].sym
                     made(st) == \E n \in 1..Len(st) :
                                    /\ st[n].root_node.rule_sym = sym
                                    /\ st[n].root_node.children = pair
                 IN  (/\ BlankGap(stash[i], stash[j])
                      /\ stash[i].value \notin rules[rule_ix].production.bad
                      /\ ~made(stash))
                     => made(produced_nodes')
        /\ (pc = "filter" /\ pc' = "done") =>
              result'.stash = SelectSeq(stash, LAMBDA pn : SpanIsValid(pn.root_node))
      ]_vars

\* C19 witness: a call has returned a node with a child that is the root of
\* an entry of the working stash, whose span fails valid_boundaries and that
\* is not in the returned stash.
C19_Witness ==
    /\ result.kind = "Ok"
    /\ \E i \in 1..Len(result.stash) :
          \E k \in 1..Len(result.stash[i].root_node.children) :
             LET child == result.stash[i].root_node.children[k]
             IN  /\ child \in RootsOf(stash)
                 /\ ~SpanIsValid(child)
                 /\ child \notin RootsOf(result.stash)

\* every rule of the iteration has been applied and none has produced a node
EmptyTurnEnd == pc = "apply_once" /\ rule_ix > Len(rules) /\ produced_nodes = <<>>

RECURSIVE eager_loop(_, _, _, _, _)
\* the loop of a driver that leaves as soon as the stash has not grown: the
\* stash it leaves or the error, and the number of turns it took
eager_loop(rs, s, i, st, previous) ==
    IF ~(i < iterations_max) THEN [ok |-> TRUE, stash |-> st, err |-> NoError, turns |-> i]
    ELSE LET o == apply_once(rs, st, s)
         IN  IF ~o.ok THEN [ok |-> FALSE, stash |-> st, err |-> o.err, turns |-> i + 1]
             ELSE IF Len(o.stash) <= previous
             THEN [ok |-> TRUE, stash |-> o.stash, err |-> NoError, turns |-> i + 1]
             ELSE eager_loop(rs, s, i + 1, o.stash, Len(o.stash))

\* what that driver returns
EagerDriver(rs, s) ==
    LET o == eager_loop(rs, s, 0, <<>>, 0)
    IN  IF o.ok
        THEN [kind |-> "Ok",
              stash |-> SelectSeq(o.stash, LAMBDA pn :
                 valid_boundaries(s, pn.root_node.range, alphanumeric_class)),
              err |-> NoError]
        ELSE [kind |-> "Err", stash |-> <<>>, err |-> o.err]

RECURSIVE Depth(_)
\* the number of nested rule applications of a node: a text match has none,
\* a node made by a rule has one more than the deepest of its children
Depth(node) ==
    IF node.children = <<>> THEN 0
    ELSE LET ds == {Depth(node.children[i]) : i \in 1..Len(node.children)}
         IN  1 + CHOOSE d \in ds : \A e \in ds : e <= d

\* C21: with deterministic productions, the nodes appended in iteration 1
\* have only text-match children, and every node appended in iteration
\* k >= 2 has a child that is the root of a stash entry appended in
\* iteration k-1. At every end of an iteration k each appended node is
\* nested exactly k deep, so that the entries appended in iteration k-1 are
\* the entries nested k-1 deep; hence no returned node is nested more than
\* 10 deep.
C21_AppendedNodesBuildOnLastIteration ==
    [][ /\ (pc = "apply_once" /\ rule_ix > Len(rules)) =>
              \A n \in 1..Len(produced_nodes) :
                 LET node == produced_nodes[n].root_node
                     k    == iteration + 1
                 IN  /\ Depth(node) = k
                     /\ k = 1 => \A c \in 1..Len(node.children) :
                                    node.children[c].children = <<>>
                     /\ k >= 2 => \E c \in 1..Len(node.children) :
                                     \E e \in 1..Len(stash) :
                                        /\ stash[e].root_node = node.children[c]
                                        /\ Depth(stash[e].root_node) = k - 1
        /\ pc' = "done" =>
              \A n \in 1..Len(result'.stash) : Depth(result'.stash[n].root_node) <= 10
      ]_vars

\* C21 witness: a call has returned a node nested 10 deep, appended in the
\* tenth iteration on a child appended in the ninth.
C21_Witness ==
    /\ pc = "done"
    /\ result.kind = "Ok"
    /\ iteration = 10
    /\ \E n \in 1..Len(result.stash) :
          /\ Depth(result.stash[n].root_node) = 10
          /\ \E c \in 1..Len(result.stash[n].root_node.children) :
                /\ Depth(result.stash[n].root_node.children[c]) = 9
                /\ result.stash[n].root_node.children[c] \in RootsOf(stash)

\* F: the features seen in the training examples
SeenFeatures == UNION {DOMAIN input[i][1] : i \in 1..Len(input)}

\* the examples of class c
ExamplesOf(c) == {i \in 1..Len(input) : input[i][2] = c}

\* the features observed in class c
ObservedIn(c) == UNION {DOMAIN input[i][1] : i \in ExamplesOf(c)}

RECURSIVE CountIn(_, _)
\* the count of feature f summed over the examples of the set I
CountIn(I, f) ==
    IF I = {} THEN 0
    ELSE LET i == CHOOSE x \in I : TRUE
         IN  (IF f \in DOMAIN input[i][1] THEN input[i][1][f] ELSE 0)
             + CountIn(I \ {i}, f)

RECURSIVE SumOver(_, _)
\* the sum of g[x] over the x of X
SumOver(X, g) ==
    IF X = {} THEN 0
    ELSE LET x == CHOOSE y \in X : TRUE
         IN  g[x] + SumOver(X \ {x}, g)

\* S(c) and denom(c) = |F| + S(c)
FeatureCountOf(c) == SumOver(SeenFeatures, [f \in SeenFeatures |-> CountIn(ExamplesOf(c), f)])
DenomOf(c) == Cardinality(SeenFeatures) + FeatureCountOf(c)

\* the weights of class c in the trained classifier are those of add-one
\* smoothing: ln((n + 1) / denom(c)) for the features observed in c,
\* ln(1 / denom(c)) for the others, and the numerators sum to denom(c)
SmoothedWeights(c, info) ==
    /\ DOMAIN info.feat_probalog = ObservedIn(c)
    /\ \A f \in ObservedIn(c) :
          info.feat_probalog[f] = f32_ln_div(CountIn(ExamplesOf(c), f) + 1, DenomOf(c))
    /\ info.unk_probalog = f32_ln_div(1, DenomOf(c))
    /\ SumOver(ObservedIn(c), [f \in ObservedIn(c) |-> CountIn(ExamplesOf(c), f) + 1])
          + Cardinality(SeenFeatures \ ObservedIn(c)) = DenomOf(c)

\* the example_count values of the classes sum to the number of examples
ExampleCountsSumUp ==
    SumOver(1..Len(classifier), [i \in 1..Len(classifier) |-> classifier[i].info.example_count])
       = Len(input)

====
